---- MODULE Spec2Model ----
(***************************************************************************)
(* Model of baby_names_neural_net.ipynb: the vocabulary cell, the example  *)
(* builder cell, the model cell, the trainer `fit` and the name sampler.   *)
(*                                                                         *)
(* Characters are modelled by their code points (so that sorted() is a     *)
(* real sort), strings by sequences of code points, Python dicts by        *)
(* functions whose DOMAIN is the key set, tensors by sequences.            *)
(* Real-valued quantities (logits, losses, parameters) are not computed:   *)
(* a loss is "finite" or "nonfinite", a parameter vector is the number of  *)
(* updates applied to it, a gradient is the set of epochs whose loss       *)
(* contributed to the accumulated .grad buffers, and a draw of             *)
(* torch.multinomial is a nondeterministic choice among the model outputs. *)
(***************************************************************************)
EXTENDS Integers, Sequences, FiniteSets, TLC

(* ---- bounds of the exploration ---- *)
MaxNameLen == 2
MaxNames == 2
MaxCtxLen == 3
MaxEpochs == 11
MaxDraws == 4

(* ---- program constants ---- *)
Dot == 46
DefaultVocabSize == 27
DefaultEmbDim == 2
DefaultCtxLen == 3
HiddenUnits == 200
EnumStart == 1
PrintParts == 10
num_names == 20

Alphabet == {97, 98}
Pangram == << [k \in 1..26 |-> 96 + k] >>
SynthCorpus == << <<97, 98>>, <<98, 97>>, <<97, 97, 98>> >>

SeqsUpTo(S, n) == UNION {[1..k -> S] : k \in 0..n}
Names == SeqsUpTo(Alphabet, MaxNameLen)
Corpora == SeqsUpTo(Names, MaxNames) \cup {Pangram, SynthCorpus}

Range(s) == {s[k] : k \in DOMAIN s}
Zeros(n) == [k \in 1..n |-> 0]
EmptyDict == [k \in {} |-> 0]

VARIABLES words, ctx_len, chars, stoi, itos, X, Y, W, model, pc,
          epochs, epoch, fpc, grad, params, lossOf, lossKind, history,
          lossLog, consumed, order, ferr,
          i, ctx, gen_name, drawn, gpc, gerr

\* words .. model: the notebook globals of the same names; W[k]: index of the
\*   word that example k was appended for; pc: the cell about to run
\* epochs, epoch, history: fit's locals; fpc: position inside fit;
\*   grad: epochs whose loss gradient is accumulated in the .grad buffers;
\*   params: number of optimizer updates applied; lossOf, lossKind: the held
\*   loss (its epoch, finite or not); lossLog: every loss computed;
\*   consumed: the gradient each optimizer.step() used; order: the steps of
\*   the current epoch; ferr: the exception fit raised
\* i, ctx, gen_name: the sampler's variables; drawn: the codes sampled for
\*   the current name; gpc: position in the sampler; gerr: its exception
dataVars == <<words, ctx_len, chars, stoi, itos, X, Y, W, model, pc>>
fitVars == <<epochs, epoch, fpc, grad, params, lossOf, lossKind, history,
             lossLog, consumed, order, ferr>>
genVars == <<i, ctx, gen_name, drawn, gpc, gerr>>
vars == <<dataVars, fitVars, genVars>>


(***************************************************************************)
(* Vocabulary cell (lines 84-94)                                           *)
(***************************************************************************)
\* set(''.join(words))
CorpusChars(ws) == UNION {Range(ws[k]) : k \in DOMAIN ws}

\* sorted(list(chars)): ascending code point order
RECURSIVE SortedList(_)
SortedList(S) ==
    IF S = {} THEN <<>>
    ELSE LET m == CHOOSE a \in S : \A b \in S : a <= b
         IN <<m>> \o SortedList(S \ {m})

\* a list in some order that is not the sorted one (what list(set) may give)
RECURSIVE UnsortedList(_)
UnsortedList(S) ==
    IF S = {} THEN <<>>
    ELSE LET m == CHOOSE a \in S : \A b \in S : a >= b
         IN <<m>> \o UnsortedList(S \ {m})

\* {char: idx for idx, char in enumerate(cs, start)}
CharToIdx(cs, start) ==
    [c \in Range(cs) |-> (CHOOSE k \in DOMAIN cs : cs[k] = c) + start - 1]

\* {idx: char for idx, char in enumerate(cs, start)}
IdxToChar(cs, start) ==
    [n \in {k + start - 1 : k \in DOMAIN cs} |-> cs[n - start + 1]]

\* d[key] = val
DictSet(d, key, val) ==
    [k \in DOMAIN d \cup {key} |-> IF k = key THEN val ELSE d[k]]

MakeCharsUnsorted(ws) == UnsortedList(CorpusChars(ws))

\* chars = set(''.join(words)); chars = sorted(list(chars))
MakeChars(ws) == SortedList(CorpusChars(ws))

\* stoi = {...}; stoi['.'] = 0
MakeStoi(cs) == DictSet(CharToIdx(cs, EnumStart), Dot, 0)

\* itos = {...}; itos[0] = '.'
MakeItos(cs) == DictSet(IdxToChar(cs, EnumStart), 0, Dot)

VocabCell ==
    /\ pc = "vocab"
    /\ chars' = MakeChars(words)
    /\ stoi' = MakeStoi(MakeChars(words))
    /\ itos' = MakeItos(MakeChars(words))
    /\ pc' = "build"
    /\ UNCHANGED <<words, ctx_len, X, Y, W, model, fitVars, genVars>>

(***************************************************************************)
(* Example builder cell (lines 133-160)                                    *)
(***************************************************************************)
SlideNoDrop(c, idx) == c \o <<idx>>

\* ctx = ctx[1:] + [char_idx]
Slide(c, idx) == SubSeq(c, 2, Len(c)) \o <<idx>>

FramedNoDot(word) == word

\* word = word + '.'
Framed(word) == word \o <<Dot>>

\* the inner loop, from character k of the framed word on: the examples
\* (context, target) appended to X and Y, tagged with the word's index
RECURSIVE WordExamples(_, _, _, _, _)
WordExamples(c, word, k, st, w) ==
    IF k > Len(word) THEN <<>>
    ELSE LET char_idx == st[word[k]]
         IN << [x |-> c, y |-> char_idx, src |-> w] >>
            \o WordExamples(Slide(c, char_idx), word, k + 1, st, w)

\* the outer loop, from word w on
RECURSIVE Examples(_, _, _, _)
Examples(ws, w, C, st) ==
    IF w > Len(ws) THEN <<>>
    ELSE WordExamples(Zeros(C), Framed(ws[w]), 1, st, w)
         \o Examples(ws, w + 1, C, st)

BuilderCell ==
    /\ pc = "build"
    /\ LET ex == Examples(words, 1, ctx_len, stoi)
       IN /\ X' = [k \in DOMAIN ex |-> ex[k].x]
          /\ Y' = [k \in DOMAIN ex |-> ex[k].y]
          /\ W' = [k \in DOMAIN ex |-> ex[k].src]
    /\ pc' = "model"
    /\ UNCHANGED <<words, ctx_len, chars, stoi, itos, model, fitVars, genVars>>

(***************************************************************************)
(* Model cell (lines 228-253): model = MLPLM(); out = model(X)             *)
(***************************************************************************)
NoModel == [vocab_size |-> 0, emb_dim |-> 0, in_features |-> 0, hidden |-> 0]

\* MLPLM.__init__ with its default arguments
MLPLM ==
    [vocab_size |-> DefaultVocabSize, emb_dim |-> DefaultEmbDim,
     in_features |-> DefaultEmbDim * DefaultCtxLen, hidden |-> HiddenUnits]

\* MLPLM.forward succeeds on the batch xs: integer indices inside the
\* embedding table, and the flattened width equal to fc[0].in_features
ForwardOk(m, xs) ==
    /\ xs # <<>>
    /\ \A r \in DOMAIN xs :
          /\ \A k \in DOMAIN xs[r] : xs[r][k] \in 0..(m.vocab_size - 1)
          /\ Len(xs[r]) * m.emb_dim = m.in_features

ModelCell ==
    /\ pc = "model"
    /\ model' = MLPLM
    /\ pc' = IF ForwardOk(MLPLM, X) THEN "fit" ELSE "error"
    /\ UNCHANGED <<words, ctx_len, chars, stoi, itos, X, Y, W, fitVars, genVars>>

FitIdle ==
    /\ epochs = 0 /\ epoch = 0 /\ fpc = "idle" /\ grad = {} /\ params = 0
    /\ lossOf = -1 /\ lossKind = "none" /\ history = <<>> /\ lossLog = <<>>
    /\ consumed = <<>> /\ order = <<>> /\ ferr = "none"

GenIdle ==
    /\ i = 0 /\ ctx = <<>> /\ gen_name = <<>> /\ drawn = <<>>
    /\ gpc = "idle" /\ gerr = "none"

Init ==
    /\ words \in Corpora
    /\ ctx_len \in 1..MaxCtxLen
    /\ chars = <<>> /\ stoi = EmptyDict /\ itos = EmptyDict
    /\ X = <<>> /\ Y = <<>> /\ W = <<>>
    /\ model = NoModel
    /\ pc = "vocab"
    /\ FitIdle
    /\ GenIdle

Next == VocabCell \/ BuilderCell \/ ModelCell

Spec == Init /\ [][Next]_vars


\* the kernel state once the vocabulary, builder and model cells were run on
\* corpus ws with context length C: `model` is bound before the cell's
\* forward pass, so it exists whether or not that pass raised
AfterModelCell(ws, C) ==
    /\ words = ws
    /\ ctx_len = C
    /\ chars = MakeChars(ws)
    /\ stoi = MakeStoi(MakeChars(ws))
    /\ itos = MakeItos(MakeChars(ws))
    /\ LET ex == Examples(ws, 1, C, MakeStoi(MakeChars(ws)))
       IN /\ X = [k \in DOMAIN ex |-> ex[k].x]
          /\ Y = [k \in DOMAIN ex |-> ex[k].y]
          /\ W = [k \in DOMAIN ex |-> ex[k].src]
          /\ pc = IF ForwardOk(MLPLM, [k \in DOMAIN ex |-> ex[k].x])
                  THEN "fit" ELSE "error"
    /\ model = MLPLM

(***************************************************************************)
(* Trainer: fit(model, X, Y, optimizer, loss_fn, epochs) (lines 282-298)   *)
(***************************************************************************)
LossKinds == {"finite", "nonfinite"}

\* the call: history = {"train_loss": []}, the loop variable before range()
FitCall ==
    /\ fpc = "idle"
    /\ \E e \in 0..MaxEpochs : epochs' = e
    /\ epoch' = 0
    /\ history' = <<>>
    /\ fpc' = "top"
    /\ UNCHANGED <<grad, params, lossOf, lossKind, lossLog, consumed, order, ferr,
                   dataVars, genVars>>

\* for epoch in range(epochs): logits = model(X)
Forward ==
    /\ fpc = "top"
    /\ epoch < epochs
    /\ order' = <<"forward">>
    /\ fpc' = "loss"
    /\ UNCHANGED <<epochs, epoch, grad, params, lossOf, lossKind, history, lossLog,
                   consumed, ferr, dataVars, genVars>>

LossChecked ==
    /\ fpc = "loss"
    /\ \E kd \in LossKinds :
          /\ lossKind' = kd
          /\ fpc' = IF kd = "nonfinite" THEN "raised" ELSE "zero_grad"
          /\ ferr' = IF kd = "nonfinite" THEN "NonFiniteLossError" ELSE ferr
          /\ lossLog' = Append(lossLog, kd)
    /\ lossOf' = epoch
    /\ order' = Append(order, "loss")
    /\ UNCHANGED <<epochs, epoch, grad, params, history, consumed,
                   dataVars, genVars>>

\* loss = loss_fn(logits, Y): the value is a finite number, or NaN / +-inf
Loss ==
    /\ fpc = "loss"
    /\ \E kd \in LossKinds :
          /\ lossKind' = kd
          /\ lossLog' = Append(lossLog, kd)
    /\ lossOf' = epoch
    /\ order' = Append(order, "loss")
    /\ fpc' = "zero_grad"
    /\ UNCHANGED <<epochs, epoch, grad, params, history, consumed, ferr,
                   dataVars, genVars>>

ZeroGradSkipped ==
    /\ fpc = "zero_grad"
    /\ order' = Append(order, "zero_grad")
    /\ fpc' = "backward"
    /\ UNCHANGED <<epochs, epoch, grad, params, lossOf, lossKind, history, lossLog,
                   consumed, ferr, dataVars, genVars>>

\* optimizer.zero_grad()
ZeroGrad ==
    /\ fpc = "zero_grad"
    /\ grad' = {}
    /\ order' = Append(order, "zero_grad")
    /\ fpc' = "backward"
    /\ UNCHANGED <<epochs, epoch, params, lossOf, lossKind, history, lossLog,
                   consumed, ferr, dataVars, genVars>>

\* loss.backward(): the gradient of the held loss is added to the .grad buffers
Backward ==
    /\ fpc = "backward"
    /\ grad' = grad \cup {lossOf}
    /\ order' = Append(order, "backward")
    /\ fpc' = "step"
    /\ UNCHANGED <<epochs, epoch, params, lossOf, lossKind, history, lossLog,
                   consumed, ferr, dataVars, genVars>>

\* optimizer.step(): the parameters are updated from the .grad buffers
OptimizerStep ==
    /\ fpc = "step"
    /\ params' = params + 1
    /\ consumed' = Append(consumed, grad)
    /\ order' = Append(order, "step")
    /\ fpc' = "record"
    /\ UNCHANGED <<epochs, epoch, grad, lossOf, lossKind, history, lossLog,
                   ferr, dataVars, genVars>>

\* train_loss = loss.item(); history["train_loss"].append(train_loss)
Record ==
    /\ fpc = "record"
    /\ history' = Append(history, lossKind)
    /\ fpc' = "print"
    /\ UNCHANGED <<epochs, epoch, grad, params, lossOf, lossKind, lossLog,
                   consumed, order, ferr, dataVars, genVars>>

\* if epoch % (epochs // 10) == 0 or epoch == epochs - 1: print(...)
\* the modulo by epochs // 10 raises ZeroDivisionError when epochs < 10
PrintCheck ==
    /\ fpc = "print"
    /\ IF epochs \div PrintParts = 0
       THEN /\ ferr' = "ZeroDivisionError"
            /\ fpc' = "raised"
            /\ UNCHANGED epoch
       ELSE /\ epoch' = epoch + 1
            /\ fpc' = "top"
            /\ UNCHANGED ferr
    /\ UNCHANGED <<epochs, grad, params, lossOf, lossKind, history, lossLog,
                   consumed, order, dataVars, genVars>>

\* return history
Return ==
    /\ fpc = "top"
    /\ epoch >= epochs
    /\ fpc' = "returned"
    /\ UNCHANGED <<epochs, epoch, grad, params, lossOf, lossKind, history, lossLog,
                   consumed, order, ferr, dataVars, genVars>>

InitFit ==
    /\ AfterModelCell(SynthCorpus, DefaultCtxLen)
    /\ FitIdle
    /\ GenIdle

NextFit ==
    \/ FitCall \/ Forward \/ Loss \/ ZeroGrad \/ Backward
    \/ OptimizerStep \/ Record \/ PrintCheck \/ Return

SpecFit == InitFit /\ [][NextFit]_vars

FitEnded == fpc \in {"returned", "raised"}

\* C6: for every epochs >= 0, fit completes all its epochs and returns a
\* history with exactly one entry per epoch, having applied exactly one
\* optimizer step per epoch.
C6_OneEntryPerEpoch ==
    FitEnded =>
        /\ fpc = "returned"
        /\ Len(history) = epochs
        /\ params = epochs

\* C7 as stated: a NaN or infinite loss in some epoch makes fit fail at that
\* epoch, so that loss is the last one computed and fit never returns.
C7_AbortsOnNonFinite ==
    \A k \in DOMAIN lossLog :
        lossLog[k] = "nonfinite" => (k = Len(lossLog) /\ fpc # "returned")

\* C7 amended: a NaN or infinite loss does not stop fit. fit never raises
\* NonFiniteLossError; the loss of every epoch, finite or not, is followed by
\* that epoch's optimizer step and recorded in the history, and a fit that
\* returns has run all its epochs.
C7_NonFiniteIsRecorded ==
    /\ ferr # "NonFiniteLossError"
    /\ \A k \in DOMAIN history : history[k] = lossLog[k]
    /\ Len(history) <= params
    /\ Len(lossLog) <= Len(history) + 1
    /\ fpc = "returned" =>
          (history = lossLog /\ Len(history) = epochs /\ params = epochs)

C7_Witness ==
    /\ fpc = "returned"
    /\ epochs = 10
    /\ history[2] = "nonfinite"
    /\ history[3] = "finite"
    /\ history[10] = "nonfinite"
    /\ params = 10

\* C8: in every epoch the order is forward, loss, gradient reset, backward,
\* update; the gradient consumed by the update of epoch e is exactly the
\* gradient of the loss of epoch e; the parameters change only at the
\* optimizer step.
C8_StepOrder ==
    /\ [](/\ \A k \in DOMAIN consumed : consumed[k] = {k - 1}
          /\ fpc = "record" =>
                order = <<"forward", "loss", "zero_grad", "backward", "step">>
          /\ fpc = "step" => (grad = {epoch} /\ lossOf = epoch))
    /\ [][params' # params =>
             (fpc = "step" /\ fpc' = "record" /\ params' = params + 1)]_vars

C8_Witness ==
    /\ fpc = "record"
    /\ epoch = 2
    /\ consumed = << {0}, {1}, {2} >>
    /\ params = 3

(***************************************************************************)
(* Sampler cell (lines 355-392)                                            *)
(***************************************************************************)
\* ctx = ctx[1:] + [idx.item()]
GenSlide(c, idx) == SubSeq(c, 2, Len(c)) \o <<idx>>

\* the cap a bounded sampler would apply; the notebook has none
max_length_cap == MaxDraws - 1

\* for i in range(num_names): ctx = [0, 0, 0]; gen_name = ''
StartName ==
    /\ gpc = "top"
    /\ i < num_names
    /\ ctx' = <<0, 0, 0>>
    /\ gen_name' = <<>>
    /\ drawn' = <<>>
    /\ gpc' = "loop"
    /\ UNCHANGED <<i, gerr, dataVars, fitVars>>

\* one iteration that tests the boundary before appending the character
GenIterExcl ==
    /\ gpc = "loop"
    /\ Len(drawn) < MaxDraws
    /\ ForwardOk(model, <<ctx>>)
    /\ \E idx \in 0..(model.vocab_size - 1) :
          IF idx \notin DOMAIN itos
          THEN /\ gerr' = "KeyError"
               /\ gpc' = "error"
               /\ UNCHANGED <<gen_name, ctx, drawn>>
          ELSE /\ gen_name' = IF itos[idx] = Dot THEN gen_name
                              ELSE gen_name \o <<itos[idx]>>
               /\ ctx' = GenSlide(ctx, idx)
               /\ drawn' = Append(drawn, idx)
               /\ gpc' = IF itos[idx] = Dot THEN "print" ELSE "loop"
               /\ UNCHANGED gerr
    /\ UNCHANGED <<i, dataVars, fitVars>>

\* one iteration that gives up once max_length_cap characters were drawn
GenIterCapped ==
    /\ gpc = "loop"
    /\ Len(drawn) < MaxDraws
    /\ ForwardOk(model, <<ctx>>)
    /\ \E idx \in 0..(model.vocab_size - 1) :
          IF idx \notin DOMAIN itos
          THEN /\ gerr' = "KeyError"
               /\ gpc' = "error"
               /\ UNCHANGED <<gen_name, ctx, drawn>>
          ELSE /\ gen_name' = gen_name \o <<itos[idx]>>
               /\ ctx' = GenSlide(ctx, idx)
               /\ drawn' = Append(drawn, idx)
               /\ IF itos[idx] = Dot
                  THEN gpc' = "print" /\ UNCHANGED gerr
                  ELSE IF Len(drawn) + 1 >= max_length_cap
                       THEN gpc' = "error" /\ gerr' = "GenerationCapExceededError"
                       ELSE gpc' = "loop" /\ UNCHANGED gerr
    /\ UNCHANGED <<i, dataVars, fitVars>>

\* one iteration of `while True` (lines 364-389): forward, softmax,
\* multinomial draw of one of the model's outputs, itos lookup, append,
\* slide, break on '.'
GenIter ==
    /\ gpc = "loop"
    /\ Len(drawn) < MaxDraws
    /\ ForwardOk(model, <<ctx>>)
    /\ \E idx \in 0..(model.vocab_size - 1) :
          IF idx \notin DOMAIN itos
          THEN /\ gerr' = "KeyError"
               /\ gpc' = "error"
               /\ UNCHANGED <<gen_name, ctx, drawn>>
          ELSE /\ gen_name' = gen_name \o <<itos[idx]>>
               /\ ctx' = GenSlide(ctx, idx)
               /\ drawn' = Append(drawn, idx)
               /\ gpc' = IF itos[idx] = Dot THEN "print" ELSE "loop"
               /\ UNCHANGED gerr
    /\ UNCHANGED <<i, dataVars, fitVars>>

\* print(gen_name), then the next i
PrintName ==
    /\ gpc = "print"
    /\ i' = i + 1
    /\ gpc' = "top"
    /\ UNCHANGED <<ctx, gen_name, drawn, gerr, dataVars, fitVars>>

GenCorpora == {w \in SeqsUpTo(Names, 1) : w # <<>>} \cup {SynthCorpus}

InitGen ==
    /\ \E ws \in GenCorpora, C \in 1..MaxCtxLen : AfterModelCell(ws, C)
    /\ FitIdle
    /\ i = 0 /\ ctx = <<>> /\ gen_name = <<>> /\ drawn = <<>>
    /\ gpc = "top" /\ gerr = "none"

NextGen == StartName \/ GenIter \/ PrintName

SpecGen == InitGen /\ [][NextGen]_vars

Sampling == gpc \in {"loop", "print"}
LastN(s, n) == SubSeq(s, Len(s) - n + 1, Len(s))

C9_SamplerContext ==
    Sampling =>
        /\ Len(ctx) = ctx_len
        /\ ctx = LastN([k \in 1..ctx_len |-> 0] \o drawn, ctx_len)
        /\ drawn = <<>> => ctx = [k \in 1..ctx_len |-> 0]

\* C10: the model has as many outputs as the vocabulary has codes, so every
\* code of the dataset is a row of the embedding table and every code the
\* sampler draws is in 0..V-1 and decodes without a lookup failure.
C10_OutputsMatchVocabulary ==
    LET V == Cardinality(DOMAIN itos)
    IN /\ \A k \in DOMAIN X : \A j \in DOMAIN X[k] : X[k][j] \in 0..(model.vocab_size - 1)
       /\ \A k \in DOMAIN Y : Y[k] \in 0..(model.vocab_size - 1)
       /\ \A k \in DOMAIN drawn : drawn[k] \in 0..(V - 1)
       /\ gerr # "KeyError"
       /\ drawn # <<>> => model.vocab_size = V

(***************************************************************************)
(* Properties of the vocabulary and of the built dataset                   *)
(***************************************************************************)
VocabBuilt == pc # "vocab"
Built == pc \in {"model", "fit", "error"}

RECURSIVE TotalChars(_, _)
TotalChars(ws, k) == IF k > Len(ws) THEN 0 ELSE Len(ws[k]) + TotalChars(ws, k + 1)

ExamplesOf(w) == {k \in DOMAIN W : W[k] = w}
LastOf(w) == CHOOSE k \in ExamplesOf(w) : \A j \in ExamplesOf(w) : j <= k

\* C1: the builder emits len(name) + 1 examples per name, T + N in total,
\* as many contexts as targets, and the last example of each name has the
\* boundary code 0 as its target.
C1_ExampleCount ==
    Built =>
        /\ Len(X) = Len(Y)
        /\ Len(X) = TotalChars(words, 1) + Len(words)
        /\ \A w \in DOMAIN words :
              /\ Cardinality(ExamplesOf(w)) = Len(words[w]) + 1
              /\ Y[LastOf(w)] = 0

C1_Witness ==
    /\ Built
    /\ Len(words) = 2
    /\ Len(words[1]) = 2
    /\ Len(words[2]) = 1
    /\ Len(X) = 5
    /\ Y[3] = 0 /\ Y[5] = 0

\* C2: the first example of every name has a context of C boundary codes,
\* every context has length C, and for consecutive examples of one name the
\* later context is the earlier one shifted left by one with the earlier
\* target appended.
C2_ContextSliding ==
    Built =>
        /\ \A k \in DOMAIN X : Len(X[k]) = ctx_len
        /\ \A k \in DOMAIN X :
              (k = 1 \/ W[k - 1] # W[k]) => X[k] = [j \in 1..ctx_len |-> 0]
        /\ \A k \in DOMAIN X :
              (k + 1 \in DOMAIN X /\ W[k] = W[k + 1]) =>
                 /\ \A j \in 1..(ctx_len - 1) : X[k + 1][j] = X[k][j + 1]
                 /\ X[k + 1][ctx_len] = Y[k]

C2_Witness ==
    /\ Built
    /\ ctx_len = 2
    /\ words = << <<98, 97>> >>
    /\ X = << <<0, 0>>, <<0, 2>>, <<2, 1>> >>
    /\ Y = <<2, 1, 0>>

\* C3: for a non-empty corpus decode(encode(c)) = c for every character of
\* the corpus, decode(0) is '.', the codes are 0..V-1 and the non-boundary
\* characters hold the codes 1..V-1 in sorted character order.
C3_VocabRoundTrip ==
    (VocabBuilt /\ words # <<>>) =>
        LET V == Cardinality(CorpusChars(words)) + 1
        IN /\ \A c \in CorpusChars(words) :
                 /\ c \in DOMAIN stoi
                 /\ stoi[c] \in DOMAIN itos
                 /\ itos[stoi[c]] = c
           /\ 0 \in DOMAIN itos /\ itos[0] = Dot
           /\ DOMAIN itos = 0..(V - 1)
           /\ {itos[n] : n \in 1..(V - 1)} = CorpusChars(words)
           /\ \A a, b \in 1..(V - 1) : a < b => itos[a] < itos[b]

C3_Witness ==
    /\ VocabBuilt
    /\ words = << <<98, 97>>, <<97>> >>
    /\ itos = (0 :> 46) @@ (1 :> 97) @@ (2 :> 98)
    /\ stoi = (46 :> 0) @@ (97 :> 1) @@ (98 :> 2)

====
